---- MODULE Spec2Model ----
(***************************************************************************)
(* Model of the ICU tokenizer of Nominatim                                 *)
(* (nominatim/tokenizer/icu_tokenizer.py, icu_token_analysis.py).          *)
(*                                                                         *)
(* Strings are sequences of characters, a character being a one-element    *)
(* TLA+ string ("a^" stands for an accented a, "yaz" for a letter that     *)
(* has no ASCII transliteration).  The word table of the database is a     *)
(* bag of rows: SQL tables have no implicit uniqueness.                    *)
(***************************************************************************)
EXTENDS Bags, FiniteSets, Integers, Sequences, TLC

VARIABLES
    word,       \* the word table: a bag of rows
    seq_word,   \* the sequence seq_word: the last id handed out
    cache,      \* cache[s]: the _TokenCache of analyzer session s
    pc,         \* pc[s]: where session s stands in its current call
    frame,      \* frame[s]: the local variables of the call of session s
    ret,        \* ret[s]: what the last finished call of session s returned
    hist        \* observations of the run the properties are stated over

vars == <<word, seq_word, cache, pc, frame, ret, hist>>

(***************************************************************************)
(* Bounds                                                                  *)
(***************************************************************************)
NumSessions == 2

\* update_special_phrases is not called on a table of this many rows or more
MaxRows == 3

Sessions == 1 .. NumSessions

(***************************************************************************)
(* Text                                                                    *)
(***************************************************************************)
NULL == <<"NULL">>

IsSpace(c) == c = " "

RECURSIVE lstrip(_)
lstrip(s) == IF s # <<>> /\ IsSpace(Head(s)) THEN lstrip(Tail(s)) ELSE s

RECURSIVE rstrip(_)
rstrip(s) ==
    IF s # <<>> /\ IsSpace(s[Len(s)]) THEN rstrip(SubSeq(s, 1, Len(s) - 1)) ELSE s

\* str.strip()
strip(s) == lstrip(rstrip(s))

UpperChar(c) ==
    CASE c = "a" -> "A"
      [] c = "b" -> "B"
      [] c = "a^" -> "A^"
      [] OTHER -> c

\* str.upper()
upper(s) == [i \in 1 .. Len(s) |-> UpperChar(s[i])]

RECURSIVE SplitOn(_, _, _)
\* the pieces of s between the characters of seps, the current piece being cur
SplitOn(s, seps, cur) ==
    IF s = <<>> THEN <<cur>>
    ELSE IF Head(s) \in seps THEN <<cur>> \o SplitOn(Tail(s), seps, <<>>)
    ELSE SplitOn(Tail(s), seps, Append(cur, Head(s)))

\* str.split(): the non-empty pieces between runs of whitespace
split(s) == SelectSeq(SplitOn(s, {" "}, <<>>), LAMBDA w : w # <<>>)

Range(f) == {f[i] : i \in DOMAIN f}

RECURSIVE Flatten(_)
Flatten(ss) == IF ss = <<>> THEN <<>> ELSE Head(ss) \o Flatten(Tail(ss))

RECURSIVE SquashSpace(_)
\* the rule [:Space:]+ > ' '
SquashSpace(s) ==
    IF Len(s) < 2 THEN s
    ELSE IF IsSpace(s[1]) /\ IsSpace(s[2]) THEN SquashSpace(Tail(s))
    ELSE <<Head(s)>> \o SquashSpace(Tail(s))

\* the normalization rules: lower case, punctuation to a space
NormRule(c) ==
    CASE c = "A" -> <<"a">>
      [] c = "B" -> <<"b">>
      [] c = "A^" -> <<"a^">>
      [] c \in {",", ";", ":", "-", "."} -> <<" ">>
      [] OTHER -> <<c>>

\* the transliteration rules: to ASCII, dropping what has no ASCII form
TransRule(c) ==
    CASE c = "a^" -> <<"a">>
      [] c = "A^" -> <<"A">>
      [] c = "yaz" -> <<>>
      [] c = "@" -> <<" ">>
      [] OTHER -> <<c>>

ApplyRule(R(_), s) == Flatten([i \in 1 .. Len(s) |-> R(s[i])])

\* ICUTokenAnalysis.normalizer.transliterate
normalizer(s) == SquashSpace(ApplyRule(NormRule, s))

\* ICUTokenAnalysis.to_ascii.transliterate
to_ascii(s) == SquashSpace(ApplyRule(TransRule, s))

\* the rule that makes one space of a run of spaces is not among the rules
search_NoSquash(s) == ApplyRule(TransRule, SquashSpace(ApplyRule(NormRule, s)))

\* ICUTokenAnalysis.search.transliterate: the rules norm_rules + trans_rules
search(s) == SquashSpace(ApplyRule(TransRule, SquashSpace(ApplyRule(NormRule, s))))

_search_normalized(name) == strip(search(name))

_normalized(name) == strip(normalizer(name))

(***************************************************************************)
(* The word table                                                          *)
(***************************************************************************)
NoInfo == [class |-> "NULL", type |-> "NULL", op |-> "NULL"]

Row(id, token, typ, w, info) ==
    [word_id |-> id, word_token |-> token, type |-> typ, word |-> w, info |-> info]

RowsOf(tbl, typ) == {r \in BagToSet(tbl) : r.type = typ}

Insert(tbl, rows) == tbl (+) SetToBag(rows)

\* DELETE FROM word WHERE ...: every copy of every row of the set goes
Delete(tbl, rows) == [r \in (DOMAIN tbl) \ rows |-> tbl[r]]

Min(S) == CHOOSE x \in S : \A y \in S : x <= y

RECURSIVE SetToSortedSeq(_)
SetToSortedSeq(S) ==
    IF S = {} THEN <<>> ELSE <<Min(S)>> \o SetToSortedSeq(S \ {Min(S)})

\* SQL function getorcreate_partial_word(partial)
getorcreate_partial_word(tbl, seq, partial) ==
    LET have == {r.word_id : r \in {x \in RowsOf(tbl, "w") : x.word_token = partial}}
    IN  IF have # {}
        THEN [word |-> tbl, seq |-> seq, token |-> Min(have)]
        ELSE [word |-> Insert(tbl, {Row(seq + 1, partial, "w", NULL, NoInfo)}),
              seq |-> seq + 1, token |-> seq + 1]

RECURSIVE PartialWords(_, _, _, _)
\* getorcreate_partial_word over the words of a list, in its order
PartialWords(tbl, seq, words, acc) ==
    IF words = <<>> THEN [word |-> tbl, seq |-> seq, tokens |-> acc]
    ELSE LET r == getorcreate_partial_word(tbl, seq, Head(words))
         IN  PartialWords(r.word, r.seq, Tail(words), Append(acc, r.token))

RECURSIVE SetToSeq(_)
SetToSeq(S) ==
    IF S = {} THEN <<>>
    ELSE LET x == CHOOSE y \in S : TRUE IN <<x>> \o SetToSeq(S \ {x})

\* SQL function getorcreate_full_word(norm_term, lookup_terms)
getorcreate_full_word(tbl, seq, norm_term, lookup_terms) ==
    LET have == {r.word_id : r \in {x \in RowsOf(tbl, "W") : x.word = norm_term}}
        full == IF have # {} THEN Min(have) ELSE seq + 1
        tbl1 == IF have # {} THEN tbl
                ELSE Insert(tbl, {Row(full, t, "W", norm_term, NoInfo) : t \in lookup_terms})
        seq1 == IF have # {} THEN seq ELSE seq + 1
        terms == UNION {Range(split(t)) : t \in lookup_terms}
        p == PartialWords(tbl1, seq1, SetToSeq(terms), <<>>)
    IN  [word |-> p.word, seq |-> p.seq, full |-> full, part |-> Range(p.tokens)]

(***************************************************************************)
(* Token analysis                                                          *)
(***************************************************************************)
DE == <<"d", "e">>

\* the keys of ICUTokenAnalysis.analysis
AnalyzerKeys == {NULL, DE}

\* the variant a^ -> ae of the analyzer for German
RECURSIVE Umlaut(_)
Umlaut(s) ==
    IF s = <<>> THEN <<>>
    ELSE IF Head(s) = "a^" THEN <<"a", "e">> \o Umlaut(Tail(s))
    ELSE <<Head(s)>> \o Umlaut(Tail(s))

\* analysis[key].get_variants_ascii(norm_name)
get_variants_ascii(key, norm_name) ==
    LET forms == IF key = DE THEN {norm_name, Umlaut(norm_name)} ELSE {norm_name}
    IN  {strip(to_ascii(f)) : f \in forms} \ {<<>>}

\* ICUTokenAnalysis.get_analyzer(name)
get_analyzer(name) == IF name \in AnalyzerKeys THEN name ELSE NULL

(***************************************************************************)
(* Sessions: LegacyICUNameAnalyzer and its _TokenCache                     *)
(***************************************************************************)
EmptyMap == [k \in {} |-> 0]

Put(m, k, v) == [x \in DOMAIN m \cup {k} |-> IF x = k THEN v ELSE m[x]]

\* _TokenCache.__init__
_TokenCache ==
    [names |-> EmptyMap, partials |-> EmptyMap, fulls |-> EmptyMap,
     postcodes |-> {}, housenumbers |-> EmptyMap]

\* _TokenInfo.__init__ left its data with a field
_TokenInfo_Stale == [k \in {"names"} |-> <<>>]

\* _TokenInfo.__init__: self.data = {}
_TokenInfo == EmptyMap

NoFrame == [op |-> "none"]

NoRet == [value |-> "None"]

\* _TokenInfo._mk_array: the brace-delimited list of the ids, here the list
_mk_array(tokens) == tokens

\* the dispatch key of a name in _compute_name_tokens
TokenId(norm_name, analyzer_id) ==
    IF analyzer_id = NULL THEN norm_name ELSE norm_name \o <<"@">> \o analyzer_id

\* the memo loses the partial tokens
NamesEntry_NoPartials(token_id, full, part) == [key |-> token_id, val |-> <<full, {}>>]

RECURSIVE BeforeAt(_)
BeforeAt(s) ==
    IF s = <<>> \/ Head(s) = "@" THEN <<>> ELSE <<Head(s)>> \o BeforeAt(Tail(s))

\* the memo is keyed by the normalized name without the analyzer
NamesEntry_NameOnly(token_id, full, part) ==
    [key |-> BeforeAt(token_id), val |-> <<full, part>>]

\* the entry _compute_name_tokens memoizes for a name
NamesEntry(token_id, full, part) == [key |-> token_id, val |-> <<full, part>>]

Init ==
    /\ word = EmptyBag
    /\ seq_word = 0
    /\ cache = [s \in Sessions |-> _TokenCache]
    /\ pc = [s \in Sessions |-> "idle"]
    /\ frame = [s \in Sessions |-> NoFrame]
    /\ ret = [s \in Sessions |-> NoRet]
    /\ hist = [full_calls |-> [s \in Sessions |-> EmptyMap],
               results |-> [s \in Sessions |-> EmptyMap],
               sp |-> [called |-> FALSE],
               pu |-> [called |-> FALSE],
               countries |-> {}]

\* a name without variants is sent to the store like the others
SkipName_Never(variants) == FALSE

\* _compute_name_tokens: if not variants: continue
SkipName(variants) == variants = {}

\* LegacyICUNameAnalyzer.process_place, up to the first statement on the store
process_place(s, place) ==
    /\ pc[s] = "idle"
    /\ frame' = [frame EXCEPT ![s] =
                    [op |-> "process_place", place |-> place, data |-> _TokenInfo,
                     i |-> 1, full_tokens |-> {}, partial_tokens |-> {},
                     j |-> 1, hnrs |-> <<>>, addr_terms |-> <<>>, streets |-> <<>>]]
    /\ pc' = [pc EXCEPT ![s] = IF place.names # <<>> THEN "names" ELSE "address"]
    /\ UNCHANGED <<word, seq_word, cache, ret, hist>>

\* one pass of the loop of _compute_name_tokens
_compute_name_tokens(s) ==
    /\ pc[s] = "names"
    /\ frame[s].i <= Len(frame[s].place.names)
    /\ LET f == frame[s]
           name == f.place.names[f.i]
           analyzer_id == name.analyzer
           norm_name == _normalized(name.name)
           token_id == TokenId(norm_name, analyzer_id)
           cached == token_id \in DOMAIN cache[s].names
       IN  IF cached
           THEN /\ frame' = [frame EXCEPT ![s] =
                    [f EXCEPT !.i = @ + 1,
                              !.full_tokens = @ \cup {cache[s].names[token_id][1]},
                              !.partial_tokens = @ \cup cache[s].names[token_id][2]]]
                /\ UNCHANGED <<word, seq_word, cache, pc, ret, hist>>
           ELSE IF analyzer_id \notin AnalyzerKeys
           THEN \* self.token_analysis.analysis[analyzer_id] raises KeyError
                /\ pc' = [pc EXCEPT ![s] = "idle"]
                /\ frame' = [frame EXCEPT ![s] = NoFrame]
                /\ ret' = [ret EXCEPT ![s] = [error |-> "KeyError"]]
                /\ UNCHANGED <<word, seq_word, cache, hist>>
           ELSE LET variants == get_variants_ascii(analyzer_id, norm_name)
                    r == getorcreate_full_word(word, seq_word, token_id, variants)
                    e == NamesEntry(token_id, r.full, r.part)
                    n == IF token_id \in DOMAIN hist.full_calls[s]
                         THEN hist.full_calls[s][token_id] ELSE 0
                IN  IF SkipName(variants)
                    THEN /\ frame' = [frame EXCEPT ![s] = [f EXCEPT !.i = @ + 1]]
                         /\ UNCHANGED <<word, seq_word, cache, pc, ret, hist>>
                    ELSE /\ word' = r.word
                         /\ seq_word' = r.seq
                         /\ cache' = [cache EXCEPT ![s].names = Put(@, e.key, e.val)]
                         /\ frame' = [frame EXCEPT ![s] =
                                [f EXCEPT !.i = @ + 1,
                                          !.full_tokens = @ \cup {r.full},
                                          !.partial_tokens = @ \cup r.part]]
                         /\ hist' = [hist EXCEPT !.full_calls[s] = Put(@, token_id, n + 1)]
                         /\ UNCHANGED <<pc, ret>>

\* _TokenInfo.add_names
add_names(data, fulls, partials) ==
    Put(data, "names", _mk_array(SetToSortedSeq(fulls) \o SetToSortedSeq(partials)))

\* process_place after _compute_name_tokens returned
names_done(s) ==
    /\ pc[s] = "names"
    /\ frame[s].i > Len(frame[s].place.names)
    /\ frame' = [frame EXCEPT ![s].data =
                    add_names(@, frame[s].full_tokens, frame[s].partial_tokens)]
    /\ pc' = [pc EXCEPT ![s] =
                IF frame[s].place.is_country THEN "country" ELSE "address"]
    /\ UNCHANGED <<word, seq_word, cache, ret, hist>>

\* the record of what a place got
Results(h, s, place, data) ==
    [h EXCEPT !.results[s] =
        Put(@, place, (IF place \in DOMAIN @ THEN @[place] ELSE {}) \cup {data})]

(***************************************************************************)
(* Address                                                                 *)
(***************************************************************************)
HasSeparator(s) == \E i \in DOMAIN s : s[i] \in {":", ",", ";"}

\* the postcode keeps its letter case
normalize_postcode_NoUpper(postcode) == strip(postcode)

\* LegacyICUNameAnalyzer.normalize_postcode
normalize_postcode(postcode) == upper(strip(postcode))

\* a postcode with a separator is registered as it stands
_add_postcode_Raw(postcodes, tbl, postcode) ==
    LET pcode == IF HasSeparator(postcode) THEN postcode ELSE normalize_postcode(postcode)
        term == _search_normalized(pcode)
        there == \E r \in RowsOf(tbl, "P") : r.word = pcode
    IN  IF pcode \in postcodes \/ term = <<>>
        THEN [word |-> tbl, postcodes |-> postcodes]
        ELSE [word |-> IF there THEN tbl ELSE Insert(tbl, {Row(0, term, "P", pcode, NoInfo)}),
              postcodes |-> postcodes \cup {pcode}]

\* the postcode is not put into the cache
_add_postcode_NoCache(postcodes, tbl, postcode) ==
    IF ~HasSeparator(postcode)
    THEN LET pcode == normalize_postcode(postcode)
             term == _search_normalized(pcode)
             there == \E r \in RowsOf(tbl, "P") : r.word = pcode
         IN  IF pcode \in postcodes \/ term = <<>>
             THEN [word |-> tbl, postcodes |-> postcodes]
             ELSE [word |-> IF there THEN tbl
                            ELSE Insert(tbl, {Row(0, term, "P", pcode, NoInfo)}),
                   postcodes |-> postcodes]
    ELSE [word |-> tbl, postcodes |-> postcodes]

\* the INSERT has no WHERE NOT EXISTS
_add_postcode_NoExists(postcodes, tbl, postcode) ==
    IF ~HasSeparator(postcode)
    THEN LET pcode == normalize_postcode(postcode)
             term == _search_normalized(pcode)
         IN  IF pcode \in postcodes \/ term = <<>>
             THEN [word |-> tbl, postcodes |-> postcodes]
             ELSE [word |-> Insert(tbl, {Row(0, term, "P", pcode, NoInfo)}),
                   postcodes |-> postcodes \cup {pcode}]
    ELSE [word |-> tbl, postcodes |-> postcodes]

\* LegacyICUNameAnalyzer._add_postcode on the postcode cache and the table
_add_postcode(postcodes, tbl, postcode) ==
    IF ~HasSeparator(postcode)
    THEN LET pcode == normalize_postcode(postcode)
             term == _search_normalized(pcode)
             there == \E r \in RowsOf(tbl, "P") : r.word = pcode
         IN  IF pcode \in postcodes \/ term = <<>>
             THEN [word |-> tbl, postcodes |-> postcodes]
             ELSE [word |-> IF there THEN tbl
                            ELSE Insert(tbl, {Row(0, term, "P", pcode, NoInfo)}),
                   postcodes |-> postcodes \cup {pcode}]
    ELSE [word |-> tbl, postcodes |-> postcodes]

RECURSIVE PutAll(_, _, _)
\* m[ks[i]] = vs[i] for every i, in turn
PutAll(m, ks, vs) ==
    IF ks = <<>> THEN m ELSE PutAll(Put(m, Head(ks), Head(vs)), Tail(ks), Tail(vs))

\* the tokens of the words found in the cache are left out
_compute_partial_tokens_LookupOnly(partials, tbl, seq, name) ==
    LET norm_name == _search_normalized(name)
        words == split(norm_name)
        need_lookup == SelectSeq(words, LAMBDA w : w \notin DOMAIN partials)
        r == PartialWords(tbl, seq, need_lookup, <<>>)
    IN  [word |-> r.word, seq |-> r.seq, tokens |-> r.tokens,
         partials |-> PutAll(partials, need_lookup, r.tokens)]

\* LegacyICUNameAnalyzer._compute_partial_tokens
_compute_partial_tokens(partials, tbl, seq, name) ==
    LET norm_name == _search_normalized(name)
        words == split(norm_name)
        tokens == [i \in DOMAIN SelectSeq(words, LAMBDA w : w \in DOMAIN partials) |->
                      partials[SelectSeq(words, LAMBDA w : w \in DOMAIN partials)[i]]]
        need_lookup == SelectSeq(words, LAMBDA w : w \notin DOMAIN partials)
        r == PartialWords(tbl, seq, need_lookup, <<>>)
    IN  IF need_lookup # <<>>
        THEN [word |-> r.word, seq |-> r.seq, tokens |-> tokens \o r.tokens,
              partials |-> PutAll(partials, need_lookup, r.tokens)]
        ELSE [word |-> tbl, seq |-> seq, tokens |-> tokens, partials |-> partials]

\* a name without full token gets the token 0
_retrieve_full_tokens_Dummy(fulls, tbl, name) ==
    LET norm_name == _search_normalized(name)
        found == SetToSortedSeq({r.word_id :
                     r \in {x \in RowsOf(tbl, "W") : x.word_token = norm_name}})
        full == IF found = <<>> THEN <<0>> ELSE found
    IN  IF norm_name \in DOMAIN fulls
        THEN [fulls |-> fulls, full |-> fulls[norm_name]]
        ELSE [fulls |-> Put(fulls, norm_name, full), full |-> full]

\* LegacyICUNameAnalyzer._retrieve_full_tokens
_retrieve_full_tokens(fulls, tbl, name) ==
    LET norm_name == _search_normalized(name)
        full == SetToSortedSeq({r.word_id :
                    r \in {x \in RowsOf(tbl, "W") : x.word_token = norm_name}})
    IN  IF norm_name \in DOMAIN fulls
        THEN [fulls |-> fulls, full |-> fulls[norm_name]]
        ELSE [fulls |-> Put(fulls, norm_name, full), full |-> full]

\* an item whose kind starts with the marker is an address term like the others
IsAddressTerm_NoMarker(item) ==
    /\ (item.suffix = NULL \/ item.suffix = <<>>)
    /\ item.kind \notin {<<"country">>, <<"full">>}

\* the last test of the loop of _process_place_address
IsAddressTerm(item) ==
    /\ Head(item.kind) # "_"
    /\ (item.suffix = NULL \/ item.suffix = <<>>)
    /\ item.kind \notin {<<"country">>, <<"full">>}

\* one pass of the loop of _process_place_address
_process_place_address(s) ==
    /\ pc[s] = "address"
    /\ frame[s].j <= Len(frame[s].place.address)
    /\ LET f == frame[s]
           item == f.place.address[f.j]
       IN  CASE item.kind = <<"postcode">> ->
                  LET r == _add_postcode(cache[s].postcodes, word, item.name)
                  IN  /\ word' = r.word
                      /\ cache' = [cache EXCEPT ![s].postcodes = r.postcodes]
                      /\ frame' = [frame EXCEPT ![s].j = @ + 1]
                      /\ UNCHANGED seq_word
             [] item.kind \in {<<"housenumber">>, <<"streetnumber">>,
                               <<"conscriptionnumber">>} ->
                  /\ frame' = [frame EXCEPT ![s].j = @ + 1,
                                            ![s].hnrs = Append(@, item.name)]
                  /\ UNCHANGED <<word, seq_word, cache>>
             [] item.kind = <<"street">> ->
                  LET r == _retrieve_full_tokens(cache[s].fulls, word, item.name)
                  IN  /\ cache' = [cache EXCEPT ![s].fulls = r.fulls]
                      /\ frame' = [frame EXCEPT ![s].j = @ + 1,
                                                ![s].streets = @ \o r.full]
                      /\ UNCHANGED <<word, seq_word>>
             [] item.kind = <<"place">> ->
                  IF item.suffix = NULL \/ item.suffix = <<>>
                  THEN LET r == _compute_partial_tokens(cache[s].partials, word,
                                                        seq_word, item.name)
                       IN  /\ word' = r.word
                           /\ seq_word' = r.seq
                           /\ cache' = [cache EXCEPT ![s].partials = r.partials]
                           /\ frame' = [frame EXCEPT
                                  ![s].j = @ + 1,
                                  ![s].data = IF r.tokens # <<>>
                                              THEN Put(@, "place", _mk_array(r.tokens))
                                              ELSE @]
                  ELSE /\ frame' = [frame EXCEPT ![s].j = @ + 1]
                       /\ UNCHANGED <<word, seq_word, cache>>
             [] OTHER ->
                  IF IsAddressTerm(item)
                  THEN LET r == _compute_partial_tokens(cache[s].partials, word,
                                                        seq_word, item.name)
                       IN  /\ word' = r.word
                           /\ seq_word' = r.seq
                           /\ cache' = [cache EXCEPT ![s].partials = r.partials]
                           /\ frame' = [frame EXCEPT
                                  ![s].j = @ + 1,
                                  ![s].addr_terms = Append(@, <<item.kind, r.tokens>>)]
                  ELSE /\ frame' = [frame EXCEPT ![s].j = @ + 1]
                       /\ UNCHANGED <<word, seq_word, cache>>
    /\ UNCHANGED <<pc, ret, hist>>

\* the pieces are not made a set
_split_housenumbers_NoDedup(hnrs) ==
    IF Len(hnrs) > 1 \/ "," \in Range(hnrs[1]) \/ ";" \in Range(hnrs[1])
    THEN Flatten([i \in DOMAIN hnrs |->
             [k \in DOMAIN SplitOn(hnrs[i], {";", ","}, <<>>) |->
                 strip(SplitOn(hnrs[i], {";", ","}, <<>>)[k])]])
    ELSE hnrs

\* LegacyICUNameAnalyzer._split_housenumbers
_split_housenumbers(hnrs) ==
    IF Len(hnrs) > 1 \/ "," \in Range(hnrs[1]) \/ ";" \in Range(hnrs[1])
    THEN LET simple_list ==
                 Flatten([i \in DOMAIN hnrs |->
                     [k \in DOMAIN SplitOn(hnrs[i], {";", ","}, <<>>) |->
                         strip(SplitOn(hnrs[i], {";", ","}, <<>>)[k])]])
         IN  IF Len(simple_list) > 1 THEN SetToSeq(Range(simple_list)) ELSE simple_list
    ELSE hnrs

\* SQL function getorcreate_hnr_id(lookup_term)
getorcreate_hnr_id(tbl, seq, lookup_term) ==
    LET have == {r.word_id : r \in {x \in RowsOf(tbl, "H") : x.word_token = lookup_term}}
    IN  IF have # {}
        THEN [word |-> tbl, seq |-> seq, token |-> Min(have)]
        ELSE [word |-> Insert(tbl, {Row(seq + 1, lookup_term, "H", NULL, NoInfo)}),
              seq |-> seq + 1, token |-> seq + 1]

RECURSIVE HnrIds(_, _, _, _)
\* getorcreate_hnr_id over the terms of a list, in its order
HnrIds(tbl, seq, terms, acc) ==
    IF terms = <<>> THEN [word |-> tbl, seq |-> seq, tokens |-> acc]
    ELSE LET r == getorcreate_hnr_id(tbl, seq, Head(terms))
         IN  HnrIds(r.word, r.seq, Tail(terms), Append(acc, r.token))

\* _TokenCache.get_hnr_tokens
get_hnr_tokens(housenumbers, tbl, seq, terms) ==
    LET cached == SelectSeq(terms, LAMBDA x : x \in DOMAIN housenumbers)
        tokens == [i \in DOMAIN cached |-> housenumbers[cached[i]]]
        askdb == SelectSeq(terms, LAMBDA x : x \notin DOMAIN housenumbers)
        r == HnrIds(tbl, seq, askdb, <<>>)
    IN  IF askdb # <<>>
        THEN [word |-> r.word, seq |-> r.seq, tokens |-> tokens \o r.tokens,
              housenumbers |-> PutAll(housenumbers, askdb, r.tokens)]
        ELSE [word |-> tbl, seq |-> seq, tokens |-> tokens, housenumbers |-> housenumbers]

RECURSIVE join(_, _)
\* sep.join(strs)
join(sep, strs) ==
    IF strs = <<>> THEN <<>>
    ELSE IF Len(strs) = 1 THEN strs[1]
    ELSE strs[1] \o sep \o join(sep, Tail(strs))

RECURSIVE TermsDict(_, _)
\* the dict comprehension of _TokenInfo.add_address_terms
TermsDict(terms, acc) ==
    IF terms = <<>> THEN acc
    ELSE TermsDict(Tail(terms),
                   IF Head(terms)[2] # <<>>
                   THEN Put(acc, Head(terms)[1], _mk_array(Head(terms)[2]))
                   ELSE acc)

\* the terms without tokens are kept
add_address_terms_KeepEmpty(data, terms) ==
    Put(data, "addr", [k \in {terms[i][1] : i \in DOMAIN terms} |->
                          (CHOOSE x \in Range(terms) : x[1] = k)[2]])

\* _TokenInfo.add_address_terms
add_address_terms(data, terms) ==
    LET tokens == TermsDict(terms, EmptyMap)
    IN  IF DOMAIN tokens # {} THEN Put(data, "addr", tokens) ELSE data

\* _TokenInfo.add_street
add_street(data, tokens) == Put(data, "street", _mk_array(tokens))

\* the end of _process_place_address, and process_place returns token_info.data
process_place_return(s) ==
    /\ pc[s] = "address"
    /\ frame[s].j > Len(frame[s].place.address)
    /\ LET f == frame[s]
           hnrs == IF f.hnrs # <<>> THEN _split_housenumbers(f.hnrs) ELSE <<>>
           std == [i \in DOMAIN hnrs |-> _search_normalized(hnrs[i])]
           h == get_hnr_tokens(cache[s].housenumbers, word, seq_word, std)
           d1 == IF f.hnrs # <<>>
                 THEN Put(Put(f.data, "hnr_tokens", _mk_array(h.tokens)),
                          "hnr", join(<<";">>, std))
                 ELSE f.data
           d2 == IF f.addr_terms # <<>> THEN add_address_terms(d1, f.addr_terms) ELSE d1
           d3 == IF f.streets # <<>> THEN add_street(d2, f.streets) ELSE d2
       IN  /\ word' = IF f.hnrs # <<>> THEN h.word ELSE word
           /\ seq_word' = IF f.hnrs # <<>> THEN h.seq ELSE seq_word
           /\ cache' = IF f.hnrs # <<>>
                       THEN [cache EXCEPT ![s].housenumbers = h.housenumbers]
                       ELSE cache
           /\ ret' = [ret EXCEPT ![s] = [value |-> d3]]
           /\ hist' = Results(hist, s, f.place, d3)
    /\ pc' = [pc EXCEPT ![s] = "idle"]
    /\ frame' = [frame EXCEPT ![s] = NoFrame]

(***************************************************************************)
(* Failing statements                                                      *)
(***************************************************************************)
\* the next step of session s runs a statement on the store
StoreCallNext(s) ==
    LET f == frame[s]
    IN  CASE pc[s] = "names" ->
               /\ f.i <= Len(f.place.names)
               /\ LET name == f.place.names[f.i]
                      norm_name == _normalized(name.name)
                  IN  /\ TokenId(norm_name, name.analyzer) \notin DOMAIN cache[s].names
                      /\ name.analyzer \in AnalyzerKeys
                      /\ get_variants_ascii(name.analyzer, norm_name) # {}
          [] pc[s] = "country" -> TRUE
          [] pc[s] = "country_insert" -> f.word_tokens # {}
          [] pc[s] = "address" /\ f.j <= Len(f.place.address) ->
               LET item == f.place.address[f.j]
                   words == split(_search_normalized(item.name))
               IN  CASE item.kind = <<"postcode">> ->
                          /\ ~HasSeparator(item.name)
                          /\ normalize_postcode(item.name) \notin cache[s].postcodes
                          /\ _search_normalized(normalize_postcode(item.name)) # <<>>
                     [] item.kind \in {<<"housenumber">>, <<"streetnumber">>,
                                       <<"conscriptionnumber">>} -> FALSE
                     [] item.kind = <<"street">> ->
                          _search_normalized(item.name) \notin DOMAIN cache[s].fulls
                     [] item.kind = <<"place">> ->
                          /\ (item.suffix = NULL \/ item.suffix = <<>>)
                          /\ \E i \in DOMAIN words : words[i] \notin DOMAIN cache[s].partials
                     [] OTHER ->
                          /\ IsAddressTerm(item)
                          /\ \E i \in DOMAIN words : words[i] \notin DOMAIN cache[s].partials
          [] pc[s] = "address" /\ f.j > Len(f.place.address) ->
               /\ f.hnrs # <<>>
               /\ \E i \in DOMAIN _split_housenumbers(f.hnrs) :
                      _search_normalized(_split_housenumbers(f.hnrs)[i])
                          \notin DOMAIN cache[s].housenumbers
          [] OTHER -> FALSE

\* process_place catches the exception and returns what it has
Raised_Swallowed(f, exc) ==
    IF f.op = "process_place" THEN [value |-> f.data] ELSE [error |-> exc]

\* an exception of a statement leaves the call of the session: no handler
\* in process_place, add_country_names or what they call
Raised(f, exc) == [error |-> exc]

\* the statement the session is about to run fails
store_call_fails(s) ==
    /\ StoreCallNext(s)
    /\ LET r == Raised(frame[s], "DatabaseError")
       IN  /\ ret' = [ret EXCEPT ![s] = r]
           /\ hist' = IF "value" \in DOMAIN r
                      THEN Results(hist, s, frame[s].place, r.value)
                      ELSE hist
    /\ pc' = [pc EXCEPT ![s] = "idle"]
    /\ frame' = [frame EXCEPT ![s] = NoFrame]
    /\ UNCHANGED <<word, seq_word, cache>>

(***************************************************************************)
(* Postcodes of the table location_postcode                                *)
(***************************************************************************)
\* the postcode words that are not in location_postcode stay
UpdatePostcodes_NoDelete(tbl, location_postcode) ==
    LET words == {r.word : r \in RowsOf(tbl, "P")}
    IN  Insert(tbl, {Row(0, _search_normalized(postcode), "P", postcode, NoInfo) :
                        postcode \in location_postcode \ words})

\* the statements of update_postcodes_from_db on a table, location_postcode
\* being the distinct postcodes of the table of that name
UpdatePostcodes(tbl, location_postcode) ==
    LET words == {r.word : r \in RowsOf(tbl, "P")}
        to_delete == words \ location_postcode
        kept == IF to_delete # {}
                THEN Delete(tbl, {r \in RowsOf(tbl, "P") : r.word \in to_delete})
                ELSE tbl
    IN  Insert(kept, {Row(0, _search_normalized(postcode), "P", postcode, NoInfo) :
                         postcode \in location_postcode \ words})

\* LegacyICUNameAnalyzer.update_postcodes_from_db
update_postcodes_from_db(s, location_postcode) ==
    /\ pc[s] = "idle"
    /\ word' = UpdatePostcodes(word, location_postcode)
    /\ hist' = [hist EXCEPT !.pu =
                   [called |-> TRUE, location_postcode |-> location_postcode,
                    before |-> word, after |-> UpdatePostcodes(word, location_postcode)]]
    /\ UNCHANGED <<seq_word, cache, pc, frame, ret>>

(***************************************************************************)
(* Special phrases                                                         *)
(***************************************************************************)
\* norm_phrases of update_special_phrases
NormPhrases(phrases) == {<<_normalized(p[1]), p[2], p[3], p[4]>> : p \in phrases}

\* existing_phrases of update_special_phrases: info.get('op') or '-'
ExistingPhrases(tbl) ==
    {<<r.word, r.info.class, r.info.type, IF r.info.op = "NULL" THEN "-" ELSE r.info.op>> :
        r \in RowsOf(tbl, "S")}

\* the row _add_special_phrases writes for a phrase
PhraseRow(term, ph) ==
    Row(0, term, "S", ph[1],
        [class |-> ph[2], type |-> ph[3],
         op |-> IF ph[4] \in {"in", "near"} THEN ph[4] ELSE "NULL"])

RECURSIVE CopyPhrases(_, _, _)
\* the loop of _add_special_phrases over to_add, then copy_out
CopyPhrases(tbl, to_add, added) ==
    IF to_add = <<>> THEN [word |-> tbl, added |-> added]
    ELSE LET ph == Head(to_add)
             term == _search_normalized(ph[1])
         IN  IF term # <<>>
             THEN CopyPhrases(Insert(tbl, {PhraseRow(term, ph)}), Tail(to_add), added + 1)
             ELSE CopyPhrases(tbl, Tail(to_add), added)

_add_special_phrases(tbl, new_phrases, existing_phrases) ==
    LET to_add == new_phrases \ existing_phrases
    IN  CopyPhrases(tbl, SetToSeq(to_add), 0)

\* the DELETE misses the rows whose operator is null
_remove_special_phrases_OpOnly(tbl, new_phrases, existing_phrases) ==
    LET to_delete == existing_phrases \ new_phrases
        hit == {r \in RowsOf(tbl, "S") :
                   \E v \in to_delete :
                       /\ r.word = v[1]
                       /\ r.info.class = v[2]
                       /\ r.info.type = v[3]
                       /\ v[4] = r.info.op}
    IN  [word |-> IF to_delete # {} THEN Delete(tbl, hit) ELSE tbl,
         deleted |-> Cardinality(to_delete)]

_remove_special_phrases(tbl, new_phrases, existing_phrases) ==
    LET to_delete == existing_phrases \ new_phrases
        hit == {r \in RowsOf(tbl, "S") :
                   \E v \in to_delete :
                       /\ r.word = v[1]
                       /\ r.info.class = v[2]
                       /\ r.info.type = v[3]
                       /\ \/ (v[4] = "-" /\ r.info.op = "NULL")
                          \/ v[4] = r.info.op}
    IN  [word |-> IF to_delete # {} THEN Delete(tbl, hit) ELSE tbl,
         deleted |-> Cardinality(to_delete)]

\* the old phrases are removed whatever the flag says
ShouldRemove_Always(should_replace) == TRUE

\* the test of should_replace in update_special_phrases
ShouldRemove(should_replace) == should_replace

\* the statements of update_special_phrases on a table
SpecialPhrases(tbl, phrases, should_replace) ==
    LET norm_phrases == NormPhrases(phrases)
        existing_phrases == ExistingPhrases(tbl)
        a == _add_special_phrases(tbl, norm_phrases, existing_phrases)
        d == IF ShouldRemove(should_replace)
             THEN _remove_special_phrases(a.word, norm_phrases, existing_phrases)
             ELSE [word |-> a.word, deleted |-> 0]
    IN  [copied |-> a.word, after |-> d.word, total |-> Cardinality(norm_phrases),
         added |-> a.added, deleted |-> d.deleted]

update_special_phrases(s, phrases, should_replace) ==
    /\ pc[s] = "idle"
    /\ BagCardinality(word) < MaxRows
    /\ LET r == SpecialPhrases(word, phrases, should_replace)
       IN  /\ word' = r.after
           /\ hist' = [hist EXCEPT !.sp =
                          [called |-> TRUE, phrases |-> phrases,
                           should_replace |-> should_replace,
                           repeated |-> /\ hist.sp.called
                                        /\ hist.sp.phrases = phrases
                                        /\ hist.sp.should_replace = should_replace,
                           before |-> word, copied |-> r.copied, after |-> r.after,
                           total |-> r.total, added |-> r.added, deleted |-> r.deleted]]
    /\ UNCHANGED <<seq_word, cache, pc, frame, ret>>

(***************************************************************************)
(* Country names                                                           *)
(***************************************************************************)
\* LegacyICUNameAnalyzer.add_country_names, up to the first statement
add_country_names(s, country_code, names) ==
    /\ pc[s] = "idle"
    /\ frame' = [frame EXCEPT ![s] =
                    [op |-> "add_country_names", country_code |-> country_code,
                     names |-> names]]
    /\ pc' = [pc EXCEPT ![s] = "country"]
    /\ UNCHANGED <<word, seq_word, cache, ret, hist>>

\* the arguments of _add_country_full_names in the call of a session
CountryArgs(f) ==
    IF f.op = "process_place"
    THEN [country_code |-> f.place.country_code, names |-> f.place.names]
    ELSE [country_code |-> f.country_code, names |-> f.names]

\* the names already stored are inserted again
NewCountryTokens_All(word_tokens, existing) == word_tokens

\* word_tokens.difference_update(existing)
NewCountryTokens(word_tokens, existing) == word_tokens \ existing

\* _add_country_full_names: the search tokens of the names, then the SELECT
\* of the tokens the country has
_add_country_full_names(s) ==
    /\ pc[s] = "country"
    /\ LET a == CountryArgs(frame[s])
           word_tokens == {_search_normalized(a.names[i].name) : i \in DOMAIN a.names}
                              \ {<<>>}
           existing == {r.word_token :
                           r \in {x \in RowsOf(word, "C") : x.word = a.country_code}}
       IN  frame' = [frame EXCEPT ![s] =
                        [k \in DOMAIN @ \cup {"word_tokens", "again"} |->
                            IF k = "word_tokens" THEN NewCountryTokens(word_tokens, existing)
                            ELSE IF k = "again" THEN <<a.country_code, a.names>> \in hist.countries
                            ELSE @[k]]]
    /\ pc' = [pc EXCEPT ![s] = "country_insert"]
    /\ UNCHANGED <<word, seq_word, cache, ret, hist>>

\* _add_country_full_names: the INSERT of the tokens that were not there
_add_country_full_names_insert(s) ==
    /\ pc[s] = "country_insert"
    /\ LET a == CountryArgs(frame[s])
       IN  /\ word' = IF frame[s].word_tokens # {}
                      THEN Insert(word, {Row(0, token, "C", a.country_code, NoInfo) :
                                            token \in frame[s].word_tokens})
                      ELSE word
           /\ hist' = [hist EXCEPT !.countries = @ \cup {<<a.country_code, a.names>>}]
    /\ IF frame[s].op = "process_place"
       THEN /\ pc' = [pc EXCEPT ![s] = "address"]
            /\ UNCHANGED frame
       ELSE /\ pc' = [pc EXCEPT ![s] = "idle"]
            /\ frame' = [frame EXCEPT ![s] = NoFrame]
    /\ UNCHANGED <<seq_word, cache, ret>>

(***************************************************************************)
(* Inputs                                                                  *)
(***************************************************************************)
NameItem(name, analyzer) == [name |-> name, analyzer |-> analyzer]

Place(names, address) ==
    [names |-> names, address |-> address, is_country |-> FALSE, country_code |-> NULL]

XX == <<"x", "x">>

N_Ab == NameItem(<<"A", " ", "b">>, NULL)

N_a_de == NameItem(<<"A^">>, DE)

N_a == NameItem(<<"a^">>, NULL)

N_yaz == NameItem(<<"yaz">>, NULL)

N_b_xx == NameItem(<<"b">>, XX)

NamePlaces == {Place(<<N_Ab, N_a_de>>, <<>>), Place(<<N_yaz, N_a_de>>, <<>>)}

NextNames ==
    \/ \E s \in Sessions, p \in NamePlaces : process_place(s, p)
    \/ \E s \in Sessions : _compute_name_tokens(s)
    \/ \E s \in Sessions : names_done(s)
    \/ \E s \in Sessions : process_place_return(s)

SpecNames == Init /\ [][NextNames]_vars

(***************************************************************************)
(* Name tokens                                                             *)
(***************************************************************************)
\* the ids the word table holds for the full word of a dispatch key
FullIds(key) == {r.word_id : r \in {x \in RowsOf(word, "W") : x.word = key}}

\* C1: within one session, a place that is processed again gets the token
\* array it got before, and no dispatch key is sent to getorcreate_full_word
\* more than once by the same session.
C1_CacheCoherence ==
    \A s \in Sessions :
        /\ \A p \in DOMAIN hist.results[s] : Cardinality(hist.results[s][p]) = 1
        /\ \A k \in DOMAIN hist.full_calls[s] : hist.full_calls[s][k] <= 1

C1_Witness ==
    \E s \in Sessions :
        /\ pc[s] = "address"
        /\ frame[s].place \in DOMAIN hist.results[s]
        /\ Len(frame[s].data["names"]) > 2
        /\ frame[s].data \in hist.results[s][frame[s].place]

\* C2: the word table holds one full-token id per dispatch key, and every
\* session that resolved the key holds that id.
C2_OneFullTokenPerKey ==
    /\ \A r \in RowsOf(word, "W") : Cardinality(FullIds(r.word)) = 1
    /\ \A s \in Sessions : \A k \in DOMAIN cache[s].names :
          FullIds(k) = {cache[s].names[k][1]}

C2_Witness ==
    \E k \in DOMAIN cache[1].names :
        /\ k \in DOMAIN cache[2].names
        /\ cache[1].names[k][1] = cache[2].names[k][1]
        /\ pc[1] = "names" /\ pc[2] = "names"

(***************************************************************************)
(* Special phrases: inputs and properties                                  *)
(***************************************************************************)
Phrase(text, cls, typ, op) == <<text, cls, typ, op>>

PhrasePool ==
    {Phrase(<<"A">>, "amenity", "bar", "-"),
     Phrase(<<"a">>, "amenity", "bar", "with"),
     Phrase(<<"b">>, "shop", "bakery", "in"),
     Phrase(<<"b">>, "shop", "bakery", "near"),
     Phrase(<<"yaz">>, "amenity", "bar", "-")}

NextPhrases ==
    \E s \in Sessions, phrases \in SUBSET PhrasePool, should_replace \in BOOLEAN :
        update_special_phrases(s, phrases, should_replace)

SpecPhrases == Init /\ [][NextPhrases]_vars

\* an operator outside {in, near} read as the placeholder
NormOp(op) == IF op \in {"in", "near"} THEN op ELSE "-"

\* the phrases of an input as the claims read them: normalized text, class,
\* type, operator or placeholder
NewPhrases(phrases) == {<<_normalized(p[1]), p[2], p[3], NormOp(p[4])>> : p \in phrases}

\* C3 as stated: after a call with should_replace the special phrases of the
\* table are exactly the input phrases that have a search token.
C3_ReplacedExactly ==
    (hist.sp.called /\ hist.sp.should_replace) =>
        ExistingPhrases(hist.sp.after) =
            NewPhrases({p \in hist.sp.phrases : _search_normalized(_normalized(p[1])) # <<>>})

\* C4 as stated: a call does to the table, and reports, what it does and
\* reports for the same phrases with every operator that is neither in nor
\* near replaced by the placeholder.
C4_OperatorNormalized ==
    hist.sp.called =>
        LET normed == {<<p[1], p[2], p[3], NormOp(p[4])>> : p \in hist.sp.phrases}
            r == SpecialPhrases(hist.sp.before, normed, hist.sp.should_replace)
        IN  /\ hist.sp.after = r.after
            /\ hist.sp.added = r.added
            /\ hist.sp.deleted = r.deleted

\* C5: a call without should_replace leaves every row of the table in place
\* and reports no deletion.
C5_AdditiveOnly ==
    (hist.sp.called /\ ~hist.sp.should_replace) =>
        /\ \A r \in DOMAIN hist.sp.before :
              r \in DOMAIN hist.sp.after /\ hist.sp.after[r] >= hist.sp.before[r]
        /\ hist.sp.deleted = 0

C5_Witness ==
    /\ hist.sp.called /\ ~hist.sp.should_replace
    /\ hist.sp.added > 0
    /\ ExistingPhrases(hist.sp.before) \ NewPhrases(hist.sp.phrases) # {}

\* C6 as stated: with should_replace the reported counts are the numbers of
\* rows inserted and removed, and a phrase that is stored and in the input
\* keeps its rows.
C6_CountsAreRows ==
    (hist.sp.called /\ hist.sp.should_replace) =>
        /\ hist.sp.added = BagCardinality(hist.sp.copied) - BagCardinality(hist.sp.before)
        /\ hist.sp.deleted = BagCardinality(hist.sp.copied) - BagCardinality(hist.sp.after)
        /\ \A r \in RowsOf(hist.sp.before, "S") :
              (\E v \in NormPhrases(hist.sp.phrases) :
                  v \in ExistingPhrases(SetToBag({r}))) =>
                  r \in DOMAIN hist.sp.after /\ hist.sp.after[r] = hist.sp.before[r]

\* C7 as stated: a call with no phrases leaves the table as it was.
C7_EmptyIsNoOp ==
    (hist.sp.called /\ hist.sp.phrases = {}) => hist.sp.after = hist.sp.before

\* C7 amended: a call with no phrases adds nothing; without should_replace
\* the table stays as it was, with should_replace every special phrase is
\* deleted and the other rows stay.
C7_EmptyInput ==
    (hist.sp.called /\ hist.sp.phrases = {}) =>
        /\ hist.sp.added = 0
        /\ ~hist.sp.should_replace => hist.sp.after = hist.sp.before /\ hist.sp.deleted = 0
        /\ hist.sp.should_replace =>
              /\ RowsOf(hist.sp.after, "S") = {}
              /\ hist.sp.deleted = Cardinality(ExistingPhrases(hist.sp.before))
              /\ \A r \in DOMAIN hist.sp.before :
                    r.type # "S" => r \in DOMAIN hist.sp.after
                                    /\ hist.sp.after[r] = hist.sp.before[r]

C7_Witness ==
    /\ hist.sp.called /\ hist.sp.phrases = {} /\ hist.sp.should_replace
    /\ RowsOf(hist.sp.before, "S") # {}
    /\ RowsOf(hist.sp.after, "S") = {}

(***************************************************************************)
(* Country names: inputs and properties                                    *)
(***************************************************************************)
FR == <<"f", "r">>

CountryPlace(country_code, names) ==
    [names |-> names, address |-> <<>>, is_country |-> TRUE,
     country_code |-> country_code]

CountryNames == {<<N_Ab>>, <<N_a, N_yaz, N_Ab>>}

NextCountry ==
    \/ \E s \in Sessions, names \in CountryNames : add_country_names(s, DE, names)
    \/ \E s \in Sessions : process_place(s, CountryPlace(FR, <<N_a>>))
    \/ \E s \in Sessions : _compute_name_tokens(s)
    \/ \E s \in Sessions : names_done(s)
    \/ \E s \in Sessions : _add_country_full_names(s)
    \/ \E s \in Sessions : _add_country_full_names_insert(s)
    \/ \E s \in Sessions : process_place_return(s)

SpecCountry == Init /\ [][NextCountry]_vars

\* the rows of type C of a table, with their numbers of copies
CountryRows(tbl) == [r \in RowsOf(tbl, "C") |-> tbl[r]]

\* no step removes or changes a row of type C
CountryRowsKept ==
    \A r \in RowsOf(word, "C") : r \in DOMAIN word' /\ word'[r] >= word[r]

\* the INSERT step of a registration whose SELECT ran after a registration of
\* the same names for the same country had finished inserts no row
SecondRunInsertsNothing ==
    \A s \in Sessions :
        (pc[s] = "country_insert" /\ frame[s].again /\ pc'[s] # "country_insert") =>
            CountryRows(word') = CountryRows(word)

\* C8: registering country names never deletes or changes a row of type C,
\* and registering the same names for the same country again inserts nothing.
C8_CountryMonotonic == [][CountryRowsKept /\ SecondRunInsertsNothing]_vars

C8_Witness ==
    \E s \in Sessions :
        /\ pc[s] = "country_insert" /\ frame[s].again
        /\ frame[s].word_tokens = {}
        /\ Cardinality(RowsOf(word, "C")) > 1

\* C9 as stated: the table never holds two rows of type C for the same
\* country code and search token.
C9_NoDuplicateCountryRows == \A r \in RowsOf(word, "C") : word[r] = 1

(***************************************************************************)
(* Address: inputs and properties                                          *)
(***************************************************************************)
AddressItem(kind, name, suffix) == [kind |-> kind, name |-> name, suffix |-> suffix]

A_pc == AddressItem(<<"postcode">>, <<" ", "a", "1">>, NULL)

A_pc_list == AddressItem(<<"postcode">>, <<"a", "1", ";", "b">>, NULL)

A_pc_yaz == AddressItem(<<"postcode">>, <<"yaz">>, NULL)

A_hnr == AddressItem(<<"housenumber">>, <<"1", ",", "2">>, NULL)

A_snr == AddressItem(<<"streetnumber">>, <<"2">>, NULL)

A_street == AddressItem(<<"street">>, <<"A", " ", "b">>, NULL)

A_place == AddressItem(<<"place">>, <<"b">>, NULL)

A_city == AddressItem(<<"city">>, <<"a^", " ", "b">>, NULL)

AddressPlaces ==
    {Place(<<>>, <<A_pc_list, A_pc>>),
     Place(<<>>, <<A_pc_yaz, A_hnr, A_street, A_city>>)}

NextAddress ==
    \/ \E s \in Sessions, p \in AddressPlaces : process_place(s, p)
    \/ \E s \in Sessions : _process_place_address(s)
    \/ \E s \in Sessions : process_place_return(s)

SpecAddress == Init /\ [][NextAddress]_vars

\* the postcode items with a separator of the places a session has processed
ListPostcodes ==
    UNION {{p.address[i].name : i \in {k \in DOMAIN p.address :
                                   /\ p.address[k].kind = <<"postcode">>
                                   /\ HasSeparator(p.address[k].name)}} :
           p \in UNION {DOMAIN hist.results[s] : s \in Sessions}}

MaxLen == 4

\* the texts of at most n characters of an alphabet
Strings(alphabet, n) == UNION {[1 .. k -> alphabet] : k \in 0 .. n}

\* texts to fold, pairs of postcodes, lists of one or two housenumbers
TextInputs ==
    {<<x>> : x \in Strings({"A^", "yaz", "@", " ", "-", "a"}, MaxLen)}
        \cup {<<x, y>> : x, y \in Strings({" ", "a", "A"}, MaxLen - 2)}
        \cup {<<x>> : x \in Strings({"1", "2", ",", ";", " "}, MaxLen)}
        \cup {<<x, y>> : x, y \in Strings({"1", ",", " "}, MaxLen - 2)}

\* a caller holds the arguments args and applies one of the functions to
\* them, then to what it got
InitText ==
    /\ word = EmptyBag
    /\ seq_word = 0
    /\ cache = [s \in Sessions |-> _TokenCache]
    /\ pc = [s \in Sessions |-> "idle"]
    /\ \E args \in TextInputs :
          frame = [s \in Sessions |->
                      IF s = 1
                      THEN [op |-> "text", args |-> args, fn |-> "none", n |-> 0,
                            y1 |-> <<>>, y |-> <<>>]
                      ELSE NoFrame]
    /\ ret = [s \in Sessions |-> NoRet]
    /\ hist = [full_calls |-> [s \in Sessions |-> EmptyMap],
               results |-> [s \in Sessions |-> EmptyMap],
               sp |-> [called |-> FALSE],
               pu |-> [called |-> FALSE],
               countries |-> {}]

\* y = fn(args[1]) the first time, y = fn(y) the second time
Apply(s, fn, first, second) ==
    /\ frame[s].op = "text"
    /\ frame[s].fn \in {"none", fn}
    /\ \/ /\ frame[s].n = 0
          /\ frame' = [frame EXCEPT ![s].fn = fn, ![s].n = 1,
                                    ![s].y1 = first, ![s].y = first]
       \/ /\ frame[s].n = 1
          /\ frame' = [frame EXCEPT ![s].n = 2, ![s].y = second]
    /\ UNCHANGED <<word, seq_word, cache, pc, ret, hist>>

apply_normalize_postcode(s) ==
    Apply(s, "normalize_postcode",
          normalize_postcode(frame[s].args[1]), normalize_postcode(frame[s].y))

apply_search_normalized(s) ==
    Apply(s, "_search_normalized",
          _search_normalized(frame[s].args[1]), _search_normalized(frame[s].y))

apply_split_housenumbers(s) ==
    /\ frame[s].op = "text"
    /\ frame[s].n = 0
    /\ frame' = [frame EXCEPT ![s].fn = "_split_housenumbers", ![s].n = 1,
                              ![s].y1 = _split_housenumbers(frame[s].args),
                              ![s].y = _split_housenumbers(frame[s].args)]
    /\ UNCHANGED <<word, seq_word, cache, pc, ret, hist>>

NextText ==
    \/ \E s \in Sessions : apply_normalize_postcode(s)
    \/ \E s \in Sessions : apply_search_normalized(s)
    \/ \E s \in Sessions : apply_split_housenumbers(s)

SpecText == InitText /\ [][NextText]_vars

\* the callers that have applied the function fn at least n times
Applied(fn, n) ==
    {s \in Sessions : frame[s].op = "text" /\ frame[s].fn = fn /\ frame[s].n >= n}

\* the trimmed pieces between the separators of the values of a list
Pieces(hnrs) ==
    UNION {{strip(p) : p \in Range(SplitOn(hnrs[i], {";", ","}, <<>>))} : i \in DOMAIN hnrs}

\* C14: _split_housenumbers returns a single value without separator as it
\* is, and otherwise the trimmed pieces between the separators of all the
\* values, each distinct piece once.
C14_SplitHousenumbers ==
    \A s \in Applied("_split_housenumbers", 1) :
        LET hnrs == frame[s].args
            out == frame[s].y
        IN  IF Len(hnrs) = 1 /\ Range(hnrs[1]) \cap {",", ";"} = {}
            THEN out = hnrs
            ELSE Range(out) = Pieces(hnrs) /\ Len(out) = Cardinality(Pieces(hnrs))

C14_Witness ==
    \E s \in Applied("_split_housenumbers", 1) :
        /\ Len(frame[s].args) = 2
        /\ frame[s].args[1] = <<"1", ",">>
        /\ frame[s].args[2] = <<" ", "1">>
        /\ Len(frame[s].y) = 2

LowerChar(c) ==
    CASE c = "A" -> "a"
      [] c = "B" -> "b"
      [] c = "A^" -> "a^"
      [] OTHER -> c

\* two texts that differ in letter case and surrounding whitespace only
SameButCaseAndSpace(a, b) ==
    LET sa == strip(a)
        sb == strip(b)
    IN  /\ Len(sa) = Len(sb)
        /\ \A i \in DOMAIN sa : LowerChar(sa[i]) = LowerChar(sb[i])

\* C19: normalize_postcode of a normalized postcode is that postcode, and
\* two postcodes that differ in letter case and surrounding whitespace only
\* have the same normalized form.
C19_PostcodeIdempotent ==
    /\ \A s \in Applied("normalize_postcode", 2) : frame[s].y = frame[s].y1
    /\ \A s \in Applied("normalize_postcode", 1) :
          (Len(frame[s].args) = 2 /\ SameButCaseAndSpace(frame[s].args[1], frame[s].args[2]))
              => frame[s].y1 = normalize_postcode(frame[s].args[2])

C19_Witness ==
    \E s \in Applied("normalize_postcode", 2) :
        /\ Len(frame[s].args) = 2
        /\ frame[s].args[1] = <<" ", "a">>
        /\ frame[s].args[2] = <<"A", " ">>
        /\ frame[s].y = <<"A">>

\* C20: the search token of a search token is that search token.
C20_SearchFoldIdempotent ==
    \A s \in Applied("_search_normalized", 2) : frame[s].y = frame[s].y1

C20_Witness ==
    \E s \in Applied("_search_normalized", 2) :
        /\ frame[s].args[1] = <<"A^", "@", "-", "a">>
        /\ frame[s].y = <<"a", " ", "a">>

(***************************************************************************)
(* Address terms: inputs and properties                                    *)
(***************************************************************************)
A_suburb == AddressItem(<<"suburb">>, <<"b">>, NULL)

\* items for internal use: their kind starts with the marker
A_hidden == AddressItem(<<"_", "x">>, <<"b">>, NULL)

A_hidden_sfx == AddressItem(<<"_", "x">>, <<"b">>, <<"e", "n">>)

EmptyPlace == Place(<<>>, <<>>)

TermPlaces ==
    {EmptyPlace, Place(<<>>, <<A_hidden_sfx, A_suburb, A_hidden, A_city, A_pc>>)}

NextTerms ==
    \/ \E s \in Sessions, p \in TermPlaces : process_place(s, p)
    \/ \E s \in Sessions : _process_place_address(s)
    \/ \E s \in Sessions : process_place_return(s)

SpecTerms == Init /\ [][NextTerms]_vars

\* every TokenInfo a session has returned
Returned == UNION {UNION {hist.results[s][p] : p \in DOMAIN hist.results[s]} : s \in Sessions}

\* C11: the address terms of a TokenInfo have no key postcode and no key
\* that starts with the marker for internal use.
C11_AddrKeys ==
    \A data \in Returned :
        "addr" \in DOMAIN data =>
            \A key \in DOMAIN data["addr"] : key # <<"postcode">> /\ Head(key) # "_"

C11_Witness ==
    \E s \in Sessions : \E p \in DOMAIN hist.results[s] :
        /\ A_hidden \in Range(p.address)
        /\ A_pc \in Range(p.address)
        /\ \E data \in hist.results[s][p] :
              "addr" \in DOMAIN data /\ <<"city">> \in DOMAIN data["addr"]

\* C17: a place without names and without address gets the empty TokenInfo,
\* and the session that processes it runs no statement on the store and ends
\* without error.
C17_EmptyPlace ==
    /\ [](\A s \in Sessions :
             EmptyPlace \in DOMAIN hist.results[s] =>
                 hist.results[s][EmptyPlace] = {EmptyMap})
    /\ [](\A s \in Sessions :
             (frame[s].op = "process_place" /\ frame[s].place = EmptyPlace) =>
                 ~StoreCallNext(s))
    /\ [][\A s \in Sessions :
             (/\ frame[s].op = "process_place"
              /\ frame[s].place = EmptyPlace
              /\ frame'[s] # frame[s]) =>
                 /\ word' = word
                 /\ seq_word' = seq_word
                 /\ ret'[s] = [value |-> EmptyMap]]_vars

C17_Witness ==
    \E s \in Sessions :
        /\ EmptyPlace \in DOMAIN hist.results[s]
        /\ ret[s] = [value |-> EmptyMap]
        /\ word # EmptyBag

\* the id of the partial word w in the word table
PartialId(w) ==
    Min({r.word_id : r \in {x \in RowsOf(word, "w") : x.word_token = w}})

\* the tokens of a name when its words are resolved one at a time, in order
OneAtATime(name) ==
    [i \in DOMAIN split(_search_normalized(name)) |->
        PartialId(split(_search_normalized(name))[i])]

\* the name of the address term of a kind in a place
TermName(place, kind) ==
    (CHOOSE item \in Range(place.address) : item.kind = kind /\ IsAddressTerm(item)).name

\* the tokens with their numbers of occurrences
BagOf(tokens) ==
    [x \in Range(tokens) |-> Cardinality({i \in DOMAIN tokens : tokens[i] = x})]

\* the address terms the sessions have computed in the calls in progress
ComputedTerms ==
    UNION {{<<frame[s].place, term>> : term \in Range(frame[s].addr_terms)} :
           s \in {x \in Sessions : frame[x].op = "process_place"}}

\* C18 as stated: the token list of an address term is the list of the ids
\* of the words of its search token, in the order of the words.
C18_SameList ==
    \A c \in ComputedTerms : c[2][2] = OneAtATime(TermName(c[1], c[2][1]))

\* C18 amended: the token list of an address term holds the ids of the words
\* of its search token, each as often as the word occurs; the order may
\* differ.
C18_SameTokens ==
    \A c \in ComputedTerms : BagOf(c[2][2]) = BagOf(OneAtATime(TermName(c[1], c[2][1])))

C18_Witness ==
    \E c \in ComputedTerms :
        /\ c[2][1] = <<"city">>
        /\ c[2][2] = <<PartialId(<<"b">>), PartialId(<<"a">>)>>
        /\ PartialId(<<"a">>) # PartialId(<<"b">>)

(***************************************************************************)
(* Streets: inputs and properties                                          *)
(***************************************************************************)
StreetOnly == Place(<<>>, <<A_street>>)

StreetPlaces == {StreetOnly, Place(<<N_Ab>>, <<A_street>>)}

NextStreet ==
    \/ \E s \in Sessions, p \in StreetPlaces : process_place(s, p)
    \/ \E s \in Sessions : _compute_name_tokens(s)
    \/ \E s \in Sessions : names_done(s)
    \/ \E s \in Sessions : _process_place_address(s)
    \/ \E s \in Sessions : process_place_return(s)

SpecStreet == Init /\ [][NextStreet]_vars

\* session s is about to process a street item
AtStreet(s) ==
    /\ pc[s] = "address"
    /\ frame[s].j <= Len(frame[s].place.address)
    /\ frame[s].place.address[frame[s].j].kind = <<"street">>

\* the ids of the full words of the table
FullWordIds == {r.word_id : r \in RowsOf(word, "W")}

\* C12: processing a street item changes nothing in the word table; a
\* TokenInfo has a field street only with ids of full words of the table in
\* it, and a place whose street has no full token gets a TokenInfo without
\* the field, not an error.
C12_StreetReadOnly ==
    /\ [][\A s \in Sessions :
             (AtStreet(s) /\ frame'[s] # frame[s]) =>
                 /\ word' = word
                 /\ seq_word' = seq_word
                 /\ pc'[s] = "address"]_vars
    /\ [](\A data \in Returned :
             "street" \in DOMAIN data =>
                 data["street"] # <<>> /\ Range(data["street"]) \subseteq FullWordIds)
    /\ [][\A s \in Sessions :
             (/\ pc[s] = "address"
              /\ frame[s].j > Len(frame[s].place.address)
              /\ frame[s].streets = <<>>
              /\ frame'[s] # frame[s]) =>
                 /\ "value" \in DOMAIN ret'[s]
                 /\ "street" \notin DOMAIN ret'[s].value]_vars

C12_Witness ==
    \E s, s2 \in Sessions :
        /\ StreetOnly \in DOMAIN hist.results[s]
        /\ EmptyMap \in hist.results[s][StreetOnly]
        /\ StreetOnly \in DOMAIN hist.results[s2]
        /\ \E data \in hist.results[s2][StreetOnly] : "street" \in DOMAIN data

(***************************************************************************)
(* Housenumbers: inputs and properties                                     *)
(***************************************************************************)
A_hnr_A == AddressItem(<<"housenumber">>, <<"1", "A">>, NULL)

A_cnr_a == AddressItem(<<"conscriptionnumber">>, <<"1", "a">>, NULL)

HnrPlaces ==
    {Place(<<>>, <<A_hnr, A_snr>>), Place(<<>>, <<A_hnr_A, A_cnr_a>>)}

NextHnr ==
    \/ \E s \in Sessions, p \in HnrPlaces : process_place(s, p)
    \/ \E s \in Sessions : _process_place_address(s)
    \/ \E s \in Sessions : process_place_return(s)

SpecHnr == Init /\ [][NextHnr]_vars

NoDuplicates(seq) == Len(seq) = Cardinality(Range(seq))

\* C13 as stated: the housenumbers of a TokenInfo are all different, and so
\* are its housenumber tokens.
C13_HnrDeduplicated ==
    \A data \in Returned :
        "hnr" \in DOMAIN data =>
            /\ NoDuplicates(SplitOn(data["hnr"], {";"}, <<>>))
            /\ NoDuplicates(data["hnr_tokens"])

(***************************************************************************)
(* Errors: inputs and properties                                           *)
(***************************************************************************)
ErrorPlaces == {Place(<<N_b_xx>>, <<>>), Place(<<N_a>>, <<A_snr>>)}

NextErrors ==
    \/ \E s \in Sessions, p \in ErrorPlaces : process_place(s, p)
    \/ \E s \in Sessions : _compute_name_tokens(s)
    \/ \E s \in Sessions : names_done(s)
    \/ \E s \in Sessions : _process_place_address(s)
    \/ \E s \in Sessions : process_place_return(s)
    \/ \E s \in Sessions : store_call_fails(s)

SpecErrors == Init /\ [][NextErrors]_vars

\* C15 as stated: no call of process_place ends with the error of a missing
\* analyzer key.
C15_FallbackToDefault ==
    \A s \in Sessions : "error" \in DOMAIN ret[s] => ret[s].error # "KeyError"

\* a TokenInfo with everything process_place puts in it for the place
Complete(place, data) ==
    /\ place.names # <<>> => "names" \in DOMAIN data
    /\ (\E i \in DOMAIN place.address :
            place.address[i].kind \in {<<"housenumber">>, <<"streetnumber">>,
                                       <<"conscriptionnumber">>})
           => "hnr" \in DOMAIN data /\ "hnr_tokens" \in DOMAIN data

\* session s ends its call of process_place in the step
CallEnds(s) == frame[s].op = "process_place" /\ frame'[s] = NoFrame

\* C16: a call of process_place that ends before its last statement ends
\* with an error, a call that ends with an error returns no TokenInfo, and
\* every TokenInfo that is returned is complete.
C16_AllOrNothing ==
    /\ [][\A s \in Sessions :
             (CallEnds(s) /\ ~(pc[s] = "address" /\ frame[s].j > Len(frame[s].place.address)))
                 => "error" \in DOMAIN ret'[s]]_vars
    /\ [][\A s \in Sessions :
             (CallEnds(s) /\ "error" \in DOMAIN ret'[s]) => hist'.results = hist.results]_vars
    /\ [](\A s \in Sessions : \A p \in DOMAIN hist.results[s] :
             \A data \in hist.results[s][p] : Complete(p, data))

C16_Witness ==
    \E s \in Sessions :
        /\ ret[s] = [error |-> "DatabaseError"]
        /\ pc[s] = "idle"
        /\ DOMAIN hist.results[s] = {}
        /\ DOMAIN cache[s].names # {}

(***************************************************************************)
(* The cache of full tokens                                                *)
(***************************************************************************)
\* the ids of the full words the table holds for a search token
FullTokensNow(norm_name) ==
    SetToSortedSeq({r.word_id :
        r \in {x \in RowsOf(word, "W") : x.word_token = norm_name}})

\* C21 as stated: what a session's cache of full tokens holds for a name is
\* what the word table holds for it now, so that _retrieve_full_tokens
\* always returns the ids the table holds.
C21_FullsNeverStale ==
    \A s \in Sessions : \A norm_name \in DOMAIN cache[s].fulls :
        cache[s].fulls[norm_name] = FullTokensNow(norm_name)

(***************************************************************************)
(* Postcodes of places                                                     *)
(***************************************************************************)
\* the postcode items of the first n address items of a place
PostcodesOf(place, n) ==
    {place.address[i].name :
        i \in {k \in DOMAIN place.address :
                  k <= n /\ place.address[k].kind = <<"postcode">>}}

\* the postcodes session s has called _add_postcode on
ProcessedPostcodes(s) ==
    UNION {PostcodesOf(p, Len(p.address)) : p \in DOMAIN hist.results[s]}
        \cup (IF frame[s].op = "process_place" /\ pc[s] = "address"
              THEN PostcodesOf(frame[s].place, frame[s].j - 1)
              ELSE {})

\* _add_postcode of session s on the postcode would run a statement
PostcodeStatement(s, postcode) ==
    /\ ~HasSeparator(postcode)
    /\ normalize_postcode(postcode) \notin cache[s].postcodes
    /\ _search_normalized(normalize_postcode(postcode)) # <<>>

\* C22 as stated: a postcode without separator that a session has called
\* _add_postcode on is in the postcode cache of the session.
C22_CachedEitherWay ==
    \A s \in Sessions : \A postcode \in ProcessedPostcodes(s) :
        ~HasSeparator(postcode) => normalize_postcode(postcode) \in cache[s].postcodes

\* C22 amended: a postcode without separator that a session has called
\* _add_postcode on is in the cache of the session if it has a search token;
\* if it has none it is not in the cache and not in the table; either way a
\* later call with it runs no statement.
C22_CachedIfToken ==
    \A s \in Sessions : \A postcode \in ProcessedPostcodes(s) :
        ~HasSeparator(postcode) =>
            LET pcode == normalize_postcode(postcode)
            IN  /\ _search_normalized(pcode) # <<>> => pcode \in cache[s].postcodes
                /\ _search_normalized(pcode) = <<>> =>
                      /\ pcode \notin cache[s].postcodes
                      /\ \A r \in RowsOf(word, "P") : r.word # pcode
                /\ ~PostcodeStatement(s, postcode)

C22_Witness ==
    \E s, s2 \in Sessions :
        /\ s # s2
        /\ A_pc_yaz.name \in ProcessedPostcodes(s)
        /\ A_pc.name \in ProcessedPostcodes(s)
        /\ normalize_postcode(A_pc.name) \in cache[s].postcodes
        /\ normalize_postcode(A_pc.name) \in cache[s2].postcodes

\* C23: the word table holds at most one row of type P for a postcode.
C23_OnePostcodeRow ==
    \A r \in RowsOf(word, "P") :
        /\ word[r] = 1
        /\ \A r2 \in RowsOf(word, "P") : r2.word = r.word => r2 = r

C23_Witness ==
    /\ \A s \in Sessions : A_pc.name \in ProcessedPostcodes(s)
    /\ \E r \in RowsOf(word, "P") : r.word = normalize_postcode(A_pc.name)
    /\ \A s \in Sessions : pc[s] = "idle"

(***************************************************************************)
(* Names without variants                                                  *)
(***************************************************************************)
KeyOf(name) == TokenId(_normalized(name.name), name.analyzer)

\* the analyzer of the name gives no variant for it
NoVariants(name) ==
    /\ name.analyzer \in AnalyzerKeys
    /\ get_variants_ascii(name.analyzer, _normalized(name.name)) = {}

\* the names of a place that have variants
WithVariants(place) == {n \in Range(place.names) : ~NoVariants(n)}

\* C24: a name without variants is never sent to the store, has no entry in
\* a name cache and no full word in the table; the TokenInfo of its place
\* has the tokens of the other names of the place and no others, and no call
\* ends with an error.
C24_EmptyVariantsDropped ==
    \A s \in Sessions :
        /\ \A p \in NamePlaces : \A n \in Range(p.names) :
              NoVariants(n) =>
                  /\ KeyOf(n) \notin DOMAIN cache[s].names
                  /\ KeyOf(n) \notin DOMAIN hist.full_calls[s]
                  /\ FullIds(KeyOf(n)) = {}
        /\ \A p \in DOMAIN hist.results[s] : \A data \in hist.results[s][p] :
              /\ \A n \in WithVariants(p) : KeyOf(n) \in DOMAIN cache[s].names
              /\ data["names"] =
                    add_names(EmptyMap,
                              {cache[s].names[KeyOf(n)][1] : n \in WithVariants(p)},
                              UNION {cache[s].names[KeyOf(n)][2] : n \in WithVariants(p)})["names"]
        /\ "error" \notin DOMAIN ret[s]

C24_Witness ==
    \E s \in Sessions : \E p \in DOMAIN hist.results[s] :
        /\ \E n \in Range(p.names) : NoVariants(n)
        /\ p.names[1] = N_yaz
        /\ \E data \in hist.results[s][p] : Len(data["names"]) > 1

(***************************************************************************)
(* Generic address items: inputs and properties                            *)
(***************************************************************************)
A_city_sfx == AddressItem(<<"city">>, <<"b">>, <<"e", "n">>)

A_country == AddressItem(<<"country">>, <<"b">>, NULL)

A_full == AddressItem(<<"full">>, <<"b">>, NULL)

A_town_yaz == AddressItem(<<"town">>, <<"yaz">>, NULL)

GenericPlaces ==
    {Place(<<>>, <<A_city_sfx, A_country, A_full, A_town_yaz>>),
     Place(<<>>, <<A_town_yaz, A_suburb, A_city_sfx, A_place>>)}

NextGeneric ==
    \/ \E s \in Sessions, p \in GenericPlaces : process_place(s, p)
    \/ \E s \in Sessions : _process_place_address(s)
    \/ \E s \in Sessions : process_place_return(s)

SpecGeneric == Init /\ [][NextGeneric]_vars

\* the items of a place that give an address term
Contributing(place) ==
    {item \in Range(place.address) :
        /\ item.kind \notin {<<"postcode">>, <<"housenumber">>, <<"streetnumber">>,
                             <<"conscriptionnumber">>, <<"street">>, <<"place">>,
                             <<"country">>, <<"full">>}
        /\ Head(item.kind) # "_"
        /\ item.suffix \in {NULL, <<>>}
        /\ split(_search_normalized(item.name)) # <<>>}

\* C25: the address terms of a TokenInfo are those of the generic items of
\* the place that have no suffix, are not of kind country or full and have
\* partial tokens; without such an item the TokenInfo has no field addr.
C25_GenericTerms ==
    \A s \in Sessions : \A p \in DOMAIN hist.results[s] : \A data \in hist.results[s][p] :
        /\ "addr" \in DOMAIN data <=> Contributing(p) # {}
        /\ "addr" \in DOMAIN data =>
              /\ DOMAIN data["addr"] = {item.kind : item \in Contributing(p)}
              /\ \A k \in DOMAIN data["addr"] : data["addr"][k] # <<>>

C25_Witness ==
    \E s \in Sessions :
        /\ \E p \in DOMAIN hist.results[s] :
              A_country \in Range(p.address) /\ EmptyMap \in hist.results[s][p]
        /\ \E p \in DOMAIN hist.results[s] : \E data \in hist.results[s][p] :
              /\ A_town_yaz \in Range(p.address)
              /\ "addr" \in DOMAIN data
              /\ DOMAIN data["addr"] = {<<"suburb">>}

(***************************************************************************)
(* Special phrases, twice                                                  *)
(***************************************************************************)
\* C26 as stated: a call of update_special_phrases with the phrases and the
\* flag of the call before it leaves the special phrases of the table as
\* they were, adds nothing and deletes nothing.
C26_PhrasesIdempotent ==
    (hist.sp.called /\ hist.sp.repeated) =>
        /\ [r \in RowsOf(hist.sp.after, "S") |-> hist.sp.after[r]]
               = [r \in RowsOf(hist.sp.before, "S") |-> hist.sp.before[r]]
        /\ hist.sp.added = 0
        /\ hist.sp.deleted = 0

(***************************************************************************)
(* Dispatch keys: inputs and properties                                    *)
(***************************************************************************)
N_a_at_de == NameItem(<<"a", "@", "d", "e">>, NULL)

N_a_plain_de == NameItem(<<"a">>, DE)

KeyPlaces == {Place(<<N_a_at_de>>, <<>>), Place(<<N_a_plain_de>>, <<>>)}

NextKeys ==
    \/ \E s \in Sessions, p \in KeyPlaces : process_place(s, p)
    \/ \E s \in Sessions : _compute_name_tokens(s)
    \/ \E s \in Sessions : names_done(s)
    \/ \E s \in Sessions : process_place_return(s)

SpecKeys == Init /\ [][NextKeys]_vars

\* the names session s has resolved in _compute_name_tokens
ResolvedNames(s) ==
    UNION {Range(p.names) : p \in DOMAIN hist.results[s]}
        \cup (IF frame[s].op = "process_place"
              THEN {frame[s].place.names[k] :
                       k \in {x \in DOMAIN frame[s].place.names :
                                 pc[s] # "names" \/ x < frame[s].i}}
              ELSE {})

\* the search tokens of the full word of an id
TokensOfFull(id) == {r.word_token : r \in {x \in RowsOf(word, "W") : x.word_id = id}}

\* C27 as stated: the names a session has resolved have different dispatch
\* keys unless they have the same normalized name and analyzer, and the full
\* token a session holds for a name is the full word of the variants of
\* that name.
C27_KeyInjective ==
    \A s \in Sessions : \A n \in ResolvedNames(s) :
        /\ \A n2 \in ResolvedNames(s) :
              KeyOf(n) = KeyOf(n2) =>
                  _normalized(n.name) = _normalized(n2.name) /\ n.analyzer = n2.analyzer
        /\ (~NoVariants(n) /\ KeyOf(n) \in DOMAIN cache[s].names) =>
              TokensOfFull(cache[s].names[KeyOf(n)][1])
                  = get_variants_ascii(n.analyzer, _normalized(n.name))

(***************************************************************************)
(* Postcodes of location_postcode: inputs and properties                   *)
(***************************************************************************)
PostcodePool == {<<"A", "1">>, <<"B">>, <<"A", " ", "1">>, <<"yaz">>}

NextPostcodes ==
    \E s \in Sessions, location_postcode \in SUBSET PostcodePool :
        update_postcodes_from_db(s, location_postcode)

SpecPostcodes == Init /\ [][NextPostcodes]_vars

\* C28: after update_postcodes_from_db the postcode words of the table are
\* the postcodes of location_postcode, and the rows of the postcodes that
\* were in both are as they were.
C28_PostcodesSynced ==
    hist.pu.called =>
        /\ {r.word : r \in RowsOf(hist.pu.after, "P")} = hist.pu.location_postcode
        /\ \A r \in RowsOf(hist.pu.before, "P") :
              r.word \in hist.pu.location_postcode =>
                  r \in DOMAIN hist.pu.after /\ hist.pu.after[r] = hist.pu.before[r]
        /\ \A r \in DOMAIN hist.pu.before :
              r.type # "P" => r \in DOMAIN hist.pu.after /\ hist.pu.after[r] = hist.pu.before[r]

C28_Witness ==
    /\ hist.pu.called
    /\ \E r \in RowsOf(hist.pu.before, "P") : r.word \notin hist.pu.location_postcode
    /\ \E r \in RowsOf(hist.pu.before, "P") : r.word \in hist.pu.location_postcode
    /\ \E postcode \in hist.pu.location_postcode :
          \A r \in RowsOf(hist.pu.before, "P") : r.word # postcode

====
